---- MODULE Spec2Model ----
(***************************************************************************)
(* A model of private-comm-server: the WebSocket relay                     *)
(* (app/routes/websocket.py wired to the ConnectionManager of app/main.py, *)
(* which is the manager websocket.py imports), the key-bundle service      *)
(* (app/routes/registration.py) and the token service (app/routes/auth.py).*)
(*                                                                         *)
(* Every coroutine is cut at its awaits: one action runs from one          *)
(* suspension point to the next, so every interleaving the event loop can  *)
(* produce is an interleaving of these actions.  db_pool is taken to be    *)
(* the pool created by lifespan().                                         *)
(***************************************************************************)
EXTENDS Integers, Sequences, FiniteSets, TLC

\* ------------------------------------------------------------------ bounds
\* Number of WebSocket upgrades (tasks running websocket_endpoint).
NSess == 3
\* Number of inbound frames the clients send in total.
MaxFrames == 2
\* The capacity cap of the registry (10,000 in app/internal/state.py), scaled
\* to a registry of two users.
MAX_CONNECTIONS == 1
\* Number of POST /register calls and of GET /keys calls.
NReg == 2
NFetch == 2
\* Largest key_id a client uploads, and largest batch of one register call.
MaxKeyId == 2
MaxBatch == 2
\* Latest clock reading at which a token is issued, and how far past the
\* expiry of such a token the clock runs.
MaxIssue == 1
MaxSlack == 2

\* ------------------------------------------------------- program constants
\* timedelta(minutes=30) of create_access_token.
ACCESS_TOKEN_MINUTES == 30
\* Close code of a rejected upgrade.
CLOSE_POLICY == 1008
\* Starlette's default code of WebSocket.close().
CLOSE_NORMAL == 1000

TTL == ACCESS_TOKEN_MINUTES * 60

None == "None"
Users == {"A", "B"}
Socks == 1..NSess
NoSock == 0
\* settings.SECRET_KEY, installed by auth.set_secret_key at import.
SECRET_KEY == "srv"

Signaling == {"call_offer", "call_answer", "ice_candidate", "call_reject", "call_end"}

VARIABLES
    pc,                 \* position of each websocket_endpoint task
    uid,                \* user_id each task decoded from its token
    sock,               \* server side of each socket: "new" | "open" | "closed"
    peerGone,           \* the client end of the socket has gone away
    closeCode,          \* code of the close the application sent on the socket
    active_connections, \* the registry: user -> socket (NoSock: no entry)
    lock,               \* holder of ConnectionManager._lock (NoSock: free)
    pending_messages,   \* rows of the pending_messages table
    cursor,             \* rows each task fetched for its drain, still to send
    frame,              \* the frame each task is handling
    written,            \* frames written to each socket, in order
    nframes,            \* inbound frames read so far
    dbnow,              \* last value NOW() returned to an INSERT
    hist,               \* per encrypted_message: how its handling went
    drained             \* the task's drain loop ran to its end

VARIABLES
    users,              \* the users table: phone_hash -> row (NoUser: no row)
    one_time_prekeys,   \* rows of the one_time_prekeys table
    nextval,            \* the SERIAL sequence of one_time_prekeys.id
    keynow,             \* last value NOW() returned to an INSERT of a prekey
    reg,                \* each register_user call: position, request, locals
    fet                 \* each get_key_bundle call: position, locals, response

VARIABLES
    clock,              \* the server's clock, in seconds
    held,               \* the token the client holds
    verdict,            \* what the last decode_websocket_token returned
    verified            \* the held token has been accepted before

relayVars == <<pc, uid, sock, peerGone, closeCode, active_connections, lock,
               pending_messages, cursor, frame, written, nframes, dbnow, hist, drained>>

keyVars == <<users, one_time_prekeys, nextval, keynow, reg, fet>>

tokenVars == <<clock, held, verdict, verified>>

vars == <<relayVars, keyVars, tokenVars>>

\* ------------------------------------------------------------------ tokens
\* jwt.encode(payload, key): the claims and the key that signed them.
Token(sub, iat, key) == [sub |-> sub, iat |-> iat, exp |-> iat + TTL, key |-> key]

\* create_access_token(user_id) at clock reading now.
create_access_token(user_id, now) == Token(user_id, now, SECRET_KEY)

\* A string that is no JWT: it carries no signature of any key.
NoToken == [sub |-> "", iat |-> 0, exp |-> 0, key |-> None]

\* A decode that does not verify the signature.
decode_websocket_token_nosig(token, now) ==
    IF token.exp < now THEN None
    ELSE IF token.sub = "" THEN None
    ELSE token.sub

\* A decode that does not look at exp.
decode_websocket_token_noexp(token, now) ==
    IF token.key # SECRET_KEY THEN None
    ELSE IF token.sub = "" THEN None
    ELSE token.sub

\* decode_websocket_token(token) at clock reading now: jwt.decode raises
\* JWTError for a token that is no JWT or is signed with another key and for
\* one whose exp lies before now; a missing or empty sub gives None.
decode_websocket_token(token, now) ==
    IF token.key # SECRET_KEY THEN None
    ELSE IF token.exp < now THEN None
    ELSE IF token.sub = "" THEN None
    ELSE token.sub

\* ------------------------------------------------------------------ base64
\* base64.b64decode(payload): "ERR" stands for binascii.Error.
b64decode(p) ==
    CASE p = "Zm9v" -> "foo"
      [] p = "YmFy" -> "bar"
      [] OTHER -> "ERR"

\* base64.b64encode(bytes).decode()
b64encode(b) ==
    CASE b = "foo" -> "Zm9v"
      [] b = "bar" -> "YmFy"
      [] OTHER -> ""

\* ------------------------------------------------------------ relay: data
\* Clock readings at which an upgrade presents its token.
UpgradeTimes == {TTL, TTL + 1}

\* Tokens a client may present on /ws: issued at 0 for a user, signed with a
\* key that is not the server's, or no JWT at all.
WsTokens == {create_access_token(u, 0) : u \in Users} \cup {Token("A", 0, "forged"), NoToken}

\* JSON objects a client may send: data.get(k) is None for an absent key.
\* Every frame that names a recipient names B (A only sends).  A signaling
\* frame carries its other keys through, and sender_id stands for them: a
\* call_offer comes with and without it.
InFrames ==
    [type : {"encrypted_message"}, recipient_id : {"B", None},
     payload : {"Zm9v", "Zm9", None}, sender_id : {None, "B"}]
    \cup [type : Signaling, recipient_id : {"B"}, payload : {None}, sender_id : {None}]
    \cup [type : {"call_offer"}, recipient_id : {"B", None},
          payload : {None}, sender_id : {None, "B"}]
    \cup [type : {"other", None}, recipient_id : {"B", None},
          payload : {"Zm9v"}, sender_id : {None}]

NoFrame == [type |-> None, recipient_id |-> None, payload |-> None, sender_id |-> None,
            id |-> 0]

\* Every arrangement of the rows.
OrderByTimestamp_unordered(rows) ==
    {q \in [1..Cardinality(rows) -> rows] :
        \A i, j \in 1..Cardinality(rows) : i # j => q[i] # q[j]}

\* ORDER BY timestamp: every arrangement of the rows with nondecreasing
\* timestamp (rows of equal timestamp come in any order).
OrderByTimestamp(rows) ==
    {q \in [1..Cardinality(rows) -> rows] :
        /\ \A i, j \in 1..Cardinality(rows) : i # j => q[i] # q[j]
        /\ \A i, j \in 1..Cardinality(rows) : i < j => q[i].timestamp <= q[j].timestamp}

\* What a send_json on socket t can do: write the frame ("ok"), raise
\* (RuntimeError once the server side is closed, WebSocketDisconnect or an
\* OSError when the peer is gone), or return with the frame dropped by the
\* transport of a peer that is gone ("lost").  The peer of an open socket may
\* be found gone at any write; once gone it stays gone.
WriteOutcomes(t) ==
    IF sock[t] # "open" THEN {"raise"}
    ELSE IF peerGone[t] THEN {"raise", "lost"}
    ELSE {"ok", "raise", "lost"}

\* peerGone after a write to t ended as o.
PeerAfter(t, o) ==
    [peerGone EXCEPT ![t] = IF o = "ok" THEN @ ELSE sock[t] = "open"]

\* The frame handle_message hands to send_to_user.
OutFrame(sender, f, id) ==
    IF f.type = "encrypted_message"
    THEN [type |-> "encrypted_message", sender_id |-> sender, payload |-> f.payload,
          src |-> "live", id |-> id, timestamp |-> dbnow]
    ELSE [type |-> f.type,
          sender_id |-> IF f.sender_id # None THEN f.sender_id ELSE sender,
          payload |-> f.payload, src |-> "live", id |-> id, timestamp |-> dbnow]

\* The frame the drain loop sends for a row.
DrainFrame(row) ==
    [type |-> "encrypted_message", sender_id |-> row.sender_id,
     payload |-> b64encode(row.encrypted_payload), src |-> "queue", id |-> row.id,
     timestamp |-> row.timestamp]

\* A user with a session whose socket is open at both ends.
Online(u) ==
    \E s \in Socks : /\ uid[s] = u
                     /\ pc[s] \notin {"idle", "done"}
                     /\ sock[s] = "open"
                     /\ ~peerGone[s]

\* connect closes the socket old it is about to displace: close() marks the
\* socket closed (it raises, and the error is swallowed, if it was closed).
CloseDisplaced_forgotten(socks, old) == socks

CloseDisplaced(socks, old) == [socks EXCEPT ![old] = "closed"]

\* The handler of task s ends (by return or by an exception): the server
\* closes the socket.  Nothing else changes: the except branch only builds the
\* coroutine manager.disconnect(user_id) and never awaits it.
ExitPc(s) == [pc EXCEPT ![s] = "done"]
ExitSock(s) == [sock EXCEPT ![s] = "closed"]

\* An encrypted_message that some task is still handling.
InFlight(id) == \E s \in Socks : frame[s].id = id

InitRelay ==
    /\ pc = [s \in Socks |-> "idle"]
    /\ uid = [s \in Socks |-> None]
    /\ sock = [s \in Socks |-> "new"]
    /\ peerGone = [s \in Socks |-> FALSE]
    /\ closeCode = [s \in Socks |-> 0]
    /\ active_connections = [u \in Users |-> NoSock]
    /\ lock = NoSock
    /\ pending_messages = {}
    /\ cursor = [s \in Socks |-> <<>>]
    /\ frame = [s \in Socks |-> NoFrame]
    /\ written = [s \in Socks |-> <<>>]
    /\ nframes = 0
    /\ dbnow = 0
    /\ hist = <<>>
    /\ drained = [s \in Socks |-> FALSE]

\* --------------------------------------------------------- relay: actions
\* websocket_endpoint from its start into connect: decode the token; close
\* with 1008, or accept the upgrade, take the registry lock and either install
\* the socket or call close() on the socket it displaces and wait for it.
\* (A task that finds the lock taken waits for it; since nothing it did so far
\* is visible to another task, that is the same as its upgrade coming later.)
Upgrade(s, token, now) ==
    /\ pc[s] = "idle"
    /\ IF s = 1 THEN TRUE ELSE pc[s - 1] # "idle"
    /\ LET user_id == decode_websocket_token(token, now) IN
       IF user_id = None
       THEN /\ pc' = ExitPc(s)
            /\ sock' = ExitSock(s)
            /\ closeCode' = [closeCode EXCEPT ![s] = CLOSE_POLICY]
            /\ UNCHANGED <<uid, hist, lock, active_connections>>
       ELSE /\ lock = NoSock
            /\ uid' = [uid EXCEPT ![s] = user_id]
            /\ hist' = [m \in DOMAIN hist |->
                          IF hist[m].rcpt = user_id /\ ~InFlight(m) /\ hist[m].next = NoSock
                          THEN [hist[m] EXCEPT !.next = s]
                          ELSE hist[m]]
            /\ LET old == active_connections[user_id] IN
               IF old # NoSock
               THEN /\ lock' = s
                    /\ pc' = [pc EXCEPT ![s] = "conn_close"]
                    /\ sock' = CloseDisplaced([sock EXCEPT ![s] = "open"], old)
                    /\ closeCode' = [closeCode EXCEPT ![old] =
                                        IF sock[old] = "open" THEN CLOSE_NORMAL ELSE @]
                    /\ UNCHANGED active_connections
               ELSE /\ active_connections' = [active_connections EXCEPT ![user_id] = s]
                    /\ pc' = [pc EXCEPT ![s] = "drain_fetch"]
                    /\ sock' = [sock EXCEPT ![s] = "open"]
                    /\ UNCHANGED <<lock, closeCode>>
    /\ UNCHANGED <<peerGone, pending_messages, cursor, frame, written, nframes, dbnow,
                   drained>>

\* connect, after the close() of the displaced socket returned or raised:
\* install the new socket and release the lock.
ConnectInstall(s) ==
    /\ pc[s] = "conn_close"
    /\ active_connections' = [active_connections EXCEPT ![uid[s]] = s]
    /\ lock' = NoSock
    /\ pc' = [pc EXCEPT ![s] = "drain_fetch"]
    /\ UNCHANGED <<uid, sock, peerGone, closeCode, pending_messages, cursor, frame,
                   written, nframes, dbnow, hist, drained>>

\* The SELECT of the drain.
DrainFetch(s) ==
    /\ pc[s] = "drain_fetch"
    /\ \E pending \in OrderByTimestamp({r \in pending_messages : r.recipient_id = uid[s]}) :
          /\ cursor' = [cursor EXCEPT ![s] = pending]
          /\ pc' = [pc EXCEPT ![s] = IF pending = <<>> THEN "read" ELSE "drain_send"]
          /\ drained' = [drained EXCEPT ![s] = (pending = <<>>)]
    /\ UNCHANGED <<uid, sock, peerGone, closeCode, active_connections, lock,
                   pending_messages, frame, written, nframes, dbnow, hist>>

\* A drain loop that deletes the row before it sends it.
DrainSend_delete_first(s, o) ==
    /\ pc[s] = "drain_send"
    /\ o \in WriteOutcomes(s)
    /\ pending_messages' = {r \in pending_messages : r.id # Head(cursor[s]).id}
    /\ IF o = "raise"
       THEN /\ pc' = ExitPc(s)
            /\ sock' = ExitSock(s)
            /\ UNCHANGED written
       ELSE /\ written' = [written EXCEPT ![s] = Append(@, DrainFrame(Head(cursor[s])))]
            /\ pc' = [pc EXCEPT ![s] = "drain_delete"]
            /\ UNCHANGED sock
    /\ peerGone' = PeerAfter(s, o)
    /\ UNCHANGED <<uid, closeCode, active_connections, lock,
                   cursor, frame, nframes, dbnow, hist, drained>>

\* websocket.send_json of the drain loop.
DrainSend(s, o) ==
    /\ pc[s] = "drain_send"
    /\ o \in WriteOutcomes(s)
    /\ IF o = "raise"
       THEN /\ pc' = ExitPc(s)
            /\ sock' = ExitSock(s)
            /\ UNCHANGED written
       ELSE /\ written' = [written EXCEPT ![s] = Append(@, DrainFrame(Head(cursor[s])))]
            /\ pc' = [pc EXCEPT ![s] = "drain_delete"]
            /\ UNCHANGED sock
    /\ peerGone' = PeerAfter(s, o)
    /\ UNCHANGED <<uid, closeCode, active_connections, lock, pending_messages,
                   cursor, frame, nframes, dbnow, hist, drained>>

\* The DELETE of the drain loop, then the next row or the read loop.
DrainDelete(s) ==
    /\ pc[s] = "drain_delete"
    /\ pending_messages' = {r \in pending_messages : r.id # Head(cursor[s]).id}
    /\ cursor' = [cursor EXCEPT ![s] = Tail(@)]
    /\ pc' = [pc EXCEPT ![s] = IF Tail(cursor[s]) = <<>> THEN "read" ELSE "drain_send"]
    /\ drained' = [drained EXCEPT ![s] = (Tail(cursor[s]) = <<>>)]
    /\ UNCHANGED <<uid, sock, peerGone, closeCode, active_connections, lock, frame,
                   written, nframes, dbnow, hist>>

\* A handle_message without the `if not payload: return` of its
\* encrypted_message branch.
Dropped_payload_unchecked(data) ==
    \/ data.type = None
    \/ data.recipient_id = None
    \/ data.type # "encrypted_message" /\ data.type \notin Signaling

\* handle_message drops the frame: no type, no recipient_id, an
\* encrypted_message without payload, or a type it does not know.
Dropped(data) ==
    \/ data.type = None
    \/ data.recipient_id = None
    \/ data.type = "encrypted_message" /\ data.payload = None
    \/ data.type # "encrypted_message" /\ data.type \notin Signaling

\* receive_json returns a JSON object the handler drops.
ReceiveDropped(s, data) ==
    /\ pc[s] = "read"
    /\ sock[s] = "open" /\ ~peerGone[s]
    /\ nframes < MaxFrames
    /\ Dropped(data)
    /\ nframes' = nframes + 1
    /\ UNCHANGED <<pc, uid, sock, peerGone, closeCode, active_connections, lock,
                   pending_messages, cursor, frame, written, dbnow, hist, drained>>

\* `user_id in active_connections` of send_to_user.
InRegistry_never(u) == FALSE

InRegistry(u) == active_connections[u] # NoSock

\* receive_json returns a JSON object; handle_message calls send_to_user, which
\* takes the registry lock and either awaits send_json on the recipient's
\* socket, still holding the lock, or returns False.
\* (As in Upgrade, a task that finds the lock taken waits for it.)
Receive(s, data) ==
    /\ pc[s] = "read"
    /\ sock[s] = "open" /\ ~peerGone[s]
    /\ nframes < MaxFrames
    /\ ~Dropped(data)
    /\ lock = NoSock
    /\ nframes' = nframes + 1
    /\ LET msg_type == data.type
           recipient_id == data.recipient_id
           id == nframes + 1
           found == InRegistry(recipient_id)
           queue == ~found /\ msg_type = "encrypted_message"
       IN /\ pc' = [pc EXCEPT ![s] = IF found THEN "hm_write"
                                     ELSE IF queue THEN "hm_insert" ELSE "read"]
          /\ lock' = IF found THEN s ELSE NoSock
          /\ frame' = [frame EXCEPT ![s] =
                         IF found \/ queue
                         THEN [type |-> msg_type, recipient_id |-> recipient_id,
                               payload |-> data.payload,
                               sender_id |-> IF msg_type \in Signaling
                                             THEN data.sender_id ELSE None,
                               id |-> id]
                         ELSE NoFrame]
          /\ hist' = IF /\ msg_type = "encrypted_message"
                        /\ b64decode(data.payload) # "ERR"
                        /\ ~Online(recipient_id)
                     THEN hist @@ (id :> [rcpt |-> recipient_id, next |-> NoSock])
                     ELSE hist
    /\ UNCHANGED <<uid, sock, peerGone, closeCode, active_connections, pending_messages,
                   cursor, written, dbnow, drained>>

\* A handler exit that awaits manager.disconnect(user_id): the entry of the
\* task's user is deleted, whichever socket it holds.
ReceiveRaises_disconnects(s) ==
    /\ pc[s] = "read"
    /\ lock = NoSock
    /\ pc' = ExitPc(s)
    /\ sock' = ExitSock(s)
    /\ active_connections' = [active_connections EXCEPT ![uid[s]] = NoSock]
    /\ UNCHANGED <<uid, peerGone, closeCode, lock, pending_messages,
                   cursor, frame, written, nframes, dbnow, hist, drained>>

\* receive_json raises: WebSocketDisconnect (the socket was closed or the peer
\* went away) or a JSON decoding error (the peer sent malformed JSON).
ReceiveRaises(s) ==
    /\ pc[s] = "read"
    /\ pc' = ExitPc(s)
    /\ sock' = ExitSock(s)
    /\ UNCHANGED <<uid, peerGone, closeCode, active_connections, lock, pending_messages,
                   cursor, frame, written, nframes, dbnow, hist, drained>>

\* A send_to_user that catches the exception of send_json and returns False,
\* so that handle_message goes on to the INSERT.
SendWrite_fallback(s, o) ==
    /\ pc[s] = "hm_write"
    /\ LET f == frame[s]
           t == active_connections[f.recipient_id]
       IN /\ o \in WriteOutcomes(t)
          /\ IF o = "raise"
             THEN /\ pc' = [pc EXCEPT ![s] = IF f.type = "encrypted_message"
                                             THEN "hm_insert" ELSE "read"]
                  /\ frame' = [frame EXCEPT ![s] = IF f.type = "encrypted_message"
                                                   THEN @ ELSE NoFrame]
                  /\ UNCHANGED written
             ELSE /\ written' = [written EXCEPT ![t] = Append(@, OutFrame(uid[s], f, f.id))]
                  /\ pc' = [pc EXCEPT ![s] = "read"]
                  /\ frame' = [frame EXCEPT ![s] = NoFrame]
          /\ peerGone' = PeerAfter(t, o)
    /\ lock' = NoSock
    /\ UNCHANGED <<uid, sock, closeCode, active_connections, pending_messages, cursor,
                   nframes, dbnow, hist, drained>>

\* send_to_user, after the await of send_json: the write is done or has
\* raised; either way the lock is released.  An exception is not caught in
\* send_to_user or handle_message, so it ends the sender's handler.
SendWrite(s, o) ==
    /\ pc[s] = "hm_write"
    /\ LET f == frame[s]
           t == active_connections[f.recipient_id]
       IN /\ o \in WriteOutcomes(t)
          /\ IF o = "raise"
             THEN /\ pc' = ExitPc(s)
                  /\ sock' = ExitSock(s)
                  /\ UNCHANGED written
             ELSE /\ written' = [written EXCEPT ![t] = Append(@, OutFrame(uid[s], f, f.id))]
                  /\ pc' = [pc EXCEPT ![s] = "read"]
                  /\ UNCHANGED sock
          /\ peerGone' = PeerAfter(t, o)
    /\ lock' = NoSock
    /\ frame' = [frame EXCEPT ![s] = NoFrame]
    /\ UNCHANGED <<uid, closeCode, active_connections, pending_messages, cursor,
                   nframes, dbnow, hist, drained>>

\* handle_message after delivered = False: decode the payload and INSERT the
\* row, whose timestamp defaults to NOW().
Insert(s, ts) ==
    /\ pc[s] = "hm_insert"
    /\ ts \in {dbnow, dbnow + 1}
    /\ LET f == frame[s] IN
       IF b64decode(f.payload) = "ERR"
       THEN /\ pc' = ExitPc(s)
            /\ sock' = ExitSock(s)
            /\ UNCHANGED <<pending_messages, dbnow>>
       ELSE /\ pending_messages' = pending_messages \cup
                 {[id |-> f.id, recipient_id |-> f.recipient_id, sender_id |-> uid[s],
                   encrypted_payload |-> b64decode(f.payload), timestamp |-> ts]}
            /\ dbnow' = ts
            /\ pc' = [pc EXCEPT ![s] = "read"]
            /\ UNCHANGED sock
    /\ frame' = [frame EXCEPT ![s] = NoFrame]
    /\ UNCHANGED <<uid, peerGone, closeCode, active_connections, lock, cursor,
                   written, nframes, hist, drained>>



\* ------------------------------------------------------ key-bundle service
Phones == {"a"}
Regs == 1..NReg
Fetchers == 1..NFetch
NoUser == [id |-> None, identity_key |-> 0]
NoRow == 0

\* One element of one_time_prekeys in a request: ok is FALSE for an element
\* the handler cannot read (no "key_id" or "public_key" key: KeyError; a
\* public_key that is not base64: binascii.Error).  pk names the key material.
Otpks(r) == [key_id : 1..MaxKeyId, ok : {TRUE}, pk : {r}]
            \cup {[key_id |-> 1, ok |-> FALSE, pk |-> r]}

\* The lists of at most MaxBatch such elements.
Batches(r) == UNION {[1..n -> Otpks(r)] : n \in 0..MaxBatch}

IdleReg == [pc |-> "idle", phone |-> None, batch |-> <<>>, existing |-> FALSE,
            user_id |-> None, i |-> 0]
\* one_time_prekey = null in a response.
NoOtpk == [key_id |-> 0, public_key |-> <<0, 0>>]
IdleFet == [pc |-> "idle", user |-> None, picked |-> NoRow, status |-> 0, otpk |-> NoOtpk]

InitKeys ==
    /\ users = [ph \in Phones |-> NoUser]
    /\ one_time_prekeys = {}
    /\ nextval = 1
    /\ keynow = 0
    /\ reg = [r \in Regs |-> IdleReg]
    /\ fet = [f \in Fetchers |-> IdleFet]

\* register_user: SELECT id FROM users WHERE phone_hash = $1.  (The client
\* sends its next registration when the previous one has been answered.)
RegSelect(r, ph, batch) ==
    /\ reg[r].pc = "idle"
    /\ IF r = 1 THEN TRUE ELSE reg[r - 1].pc \in {"done", "failed"}
    /\ reg' = [reg EXCEPT ![r] = [pc |-> "user", phone |-> ph, batch |-> batch,
                                  existing |-> users[ph] # NoUser,
                                  user_id |-> users[ph].id, i |-> 0]]
    /\ UNCHANGED <<users, one_time_prekeys, nextval, keynow, fet>>

\* register_user: UPDATE users or INSERT INTO users.  The connection is in
\* autocommit (there is no conn.transaction()), so the statement commits.
RegUser(r) ==
    /\ reg[r].pc = "user"
    /\ LET ph == reg[r].phone IN
       IF reg[r].existing
       THEN /\ users' = [users EXCEPT ![ph] =
                           IF @ = NoUser THEN @ ELSE [@ EXCEPT !.identity_key = r]]
            /\ reg' = [reg EXCEPT ![r].pc = "prekeys", ![r].i = 1]
       ELSE /\ users' = [users EXCEPT ![ph] = [id |-> ph, identity_key |-> r]]
            /\ reg' = [reg EXCEPT ![r].pc = "prekeys", ![r].user_id = ph, ![r].i = 1]
    /\ UNCHANGED <<one_time_prekeys, nextval, keynow, fet>>

\* INSERT ... ON CONFLICT (user_id, key_id) DO UPDATE SET public_key, used = FALSE:
\* the table after the upsert of element e of call r at NOW() = ts.
Upsert(rows, user_id, e, pos, ts) ==
    IF \E row \in rows : row.user_id = user_id /\ row.key_id = e.key_id
    THEN {IF row.user_id = user_id /\ row.key_id = e.key_id
          THEN [row EXCEPT !.public_key = <<e.pk, pos>>, !.used = FALSE]
          ELSE row : row \in rows}
    ELSE rows \cup {[id |-> nextval, user_id |-> user_id, key_id |-> e.key_id,
                     public_key |-> <<e.pk, pos>>, used |-> FALSE, created_at |-> ts]}

\* register_user: one turn of the loop over req.one_time_prekeys, or its end.
RegPrekey(r, ts) ==
    /\ reg[r].pc = "prekeys"
    /\ ts \in {keynow, keynow + 1}
    /\ LET i == reg[r].i
           batch == reg[r].batch
       IN IF i > Len(batch)
          THEN /\ reg' = [reg EXCEPT ![r] = [IdleReg EXCEPT !.pc = "done"]]
               /\ UNCHANGED <<one_time_prekeys, nextval, keynow>>
          ELSE IF ~batch[i].ok
          THEN /\ reg' = [reg EXCEPT ![r] = [IdleReg EXCEPT !.pc = "failed"]]
               /\ UNCHANGED <<one_time_prekeys, nextval, keynow>>
          ELSE /\ one_time_prekeys' = Upsert(one_time_prekeys, reg[r].user_id, batch[i], i, ts)
               /\ nextval' = nextval + 1
               /\ keynow' = ts
               /\ reg' = [reg EXCEPT ![r].i = i + 1]
    /\ UNCHANGED <<users, fet>>

\* get_key_bundle: SELECT ... FROM users WHERE phone_hash = $1; 404 without a row.
FetchUser(f, ph) ==
    /\ fet[f].pc = "idle"
    /\ IF f = 1 THEN TRUE ELSE fet[f - 1].pc # "idle"
    /\ fet' = [fet EXCEPT ![f] =
                 IF ph \notin Phones \/ users[ph] = NoUser
                 THEN [IdleFet EXCEPT !.pc = "done", !.status = 404]
                 ELSE [IdleFet EXCEPT !.pc = "select", !.user = users[ph].id]]
    /\ UNCHANGED <<users, one_time_prekeys, nextval, keynow, reg>>

\* A sub-SELECT without AND NOT used.
OldestUnused_any(rows, user_id) ==
    LET mine == {row \in rows : row.user_id = user_id}
    IN {row \in mine : \A other \in mine : row.created_at <= other.created_at}

\* The rows the sub-SELECT may return: WHERE user_id = $1 AND NOT used
\* ORDER BY created_at LIMIT 1 (any of the oldest when created_at ties).
OldestUnused(rows, user_id) ==
    LET unused == {row \in rows : row.user_id = user_id /\ ~row.used}
    IN {row \in unused : \A other \in unused : row.created_at <= other.created_at}

\* get_key_bundle: the sub-SELECT of the UPDATE, evaluated once on the
\* statement's snapshot (READ COMMITTED: no FOR UPDATE, no transaction).
FetchSelect(f) ==
    /\ fet[f].pc = "select"
    /\ LET oldest == OldestUnused(one_time_prekeys, fet[f].user) IN
       IF oldest = {}
       THEN fet' = [fet EXCEPT ![f].pc = "done", ![f].status = 200]
       ELSE \E row \in oldest : fet' = [fet EXCEPT ![f].pc = "update", ![f].picked = row.id]
    /\ UNCHANGED <<users, one_time_prekeys, nextval, keynow, reg>>

\* The rows the outer UPDATE ... WHERE id = <picked> changes: after waiting
\* for a concurrent writer of the row it rechecks only its own WHERE clause,
\* id = <picked>, on the row's latest version.
UpdateTargets(rows, picked) == {row \in rows : row.id = picked}

\* get_key_bundle: the outer UPDATE ... SET used = TRUE ... RETURNING key_id,
\* public_key, and the response.
FetchUpdate(f) ==
    /\ fet[f].pc = "update"
    /\ LET hit == UpdateTargets(one_time_prekeys, fet[f].picked) IN
       /\ one_time_prekeys' = {IF row \in hit THEN [row EXCEPT !.used = TRUE] ELSE row :
                                  row \in one_time_prekeys}
       /\ fet' = [fet EXCEPT ![f].pc = "done", ![f].status = 200, ![f].picked = NoRow,
                             ![f].otpk = IF hit = {} THEN NoOtpk
                                         ELSE LET row == CHOOSE row \in hit : TRUE
                                              IN [key_id |-> row.key_id,
                                                  public_key |-> row.public_key]]
    /\ UNCHANGED <<users, nextval, keynow, reg>>


\* ----------------------------------------------------------- token service
MaxClock == MaxIssue + TTL + MaxSlack
NoVerdict == [at |-> 0, result |-> None, fresh |-> FALSE]

InitToken ==
    /\ clock = 0
    /\ held = NoToken
    /\ verdict = NoVerdict
    /\ verified = FALSE

\* get_websocket_token hands the client create_access_token(user_id).
Issue(user_id) ==
    /\ clock <= MaxIssue
    /\ held' = create_access_token(user_id, clock)
    /\ verdict' = NoVerdict
    /\ verified' = FALSE
    /\ UNCHANGED clock

\* The client comes by a token the server did not sign.
Forge(user_id) ==
    /\ clock <= MaxIssue
    /\ held' = Token(user_id, clock, "forged")
    /\ verdict' = NoVerdict
    /\ verified' = FALSE
    /\ UNCHANGED clock

\* websocket_endpoint calls decode_websocket_token on the presented token.
Verify ==
    /\ verdict' = [at |-> clock, result |-> decode_websocket_token(held, clock),
                   fresh |-> TRUE]
    /\ verified' = (verified \/ decode_websocket_token(held, clock) # None)
    /\ UNCHANGED <<clock, held>>

\* A second passes.
Tick ==
    /\ clock < MaxClock
    /\ clock' = clock + 1
    /\ verdict' = NoVerdict
    /\ UNCHANGED <<held, verified>>


\* ---------------------------------------------------------- specifications
\* A step of the relay leaves the key-bundle and token services alone, and so on.
RelayStep == UNCHANGED <<keyVars, tokenVars>>
KeysStep == UNCHANGED <<relayVars, tokenVars>>
TokenStep == UNCHANGED <<relayVars, keyVars>>

Init == InitRelay /\ InitKeys /\ InitToken

\* The relay.
Next ==
    \/ \E s \in Socks, token \in WsTokens, now \in UpgradeTimes : Upgrade(s, token, now) /\ RelayStep
    \/ \E s \in Socks : ConnectInstall(s) /\ RelayStep
    \/ \E s \in Socks : DrainFetch(s) /\ RelayStep
    \/ \E s \in Socks, o \in {"ok", "lost", "raise"} : DrainSend(s, o) /\ RelayStep
    \/ \E s \in Socks : DrainDelete(s) /\ RelayStep
    \/ \E s \in Socks, data \in InFrames : ReceiveDropped(s, data) /\ RelayStep
    \/ \E s \in Socks, data \in InFrames : Receive(s, data) /\ RelayStep
    \/ \E s \in Socks : ReceiveRaises(s) /\ RelayStep
    \/ \E s \in Socks, o \in {"ok", "lost", "raise"} : SendWrite(s, o) /\ RelayStep
    \/ \E s \in Socks, ts \in 0..(MaxFrames + 1) : Insert(s, ts) /\ RelayStep

Spec == Init /\ [][Next]_vars

\* The key-bundle service.
NextK ==
    \/ \E r \in Regs, ph \in Phones : \E batch \in Batches(r) : RegSelect(r, ph, batch) /\ KeysStep
    \/ \E r \in Regs : RegUser(r) /\ KeysStep
    \/ \E r \in Regs, ts \in 0..(NReg * MaxBatch + 1) : RegPrekey(r, ts) /\ KeysStep
    \/ \E f \in Fetchers, ph \in Phones \cup {"b"} : FetchUser(f, ph) /\ KeysStep
    \/ \E f \in Fetchers : FetchSelect(f) /\ KeysStep
    \/ \E f \in Fetchers : FetchUpdate(f) /\ KeysStep

SpecKeys == Init /\ [][NextK]_vars

\* The token service.
NextT ==
    \/ \E u \in Users : Issue(u) /\ TokenStep
    \/ \E u \in Users : Forge(u) /\ TokenStep
    \/ Verify /\ TokenStep
    \/ Tick /\ TokenStep

SpecToken == Init /\ [][NextT]_vars

\* ------------------------------------------------------------------ claims
\* C1: concurrent get_key_bundle calls for one user never receive the same
\* one-time prekey: the callers that receive one receive pairwise distinct
\* uploads (so exactly as many callers are served as prekeys are consumed).
C1_AtomicPrekeyConsumption ==
    \A f, g \in Fetchers :
        (/\ f # g
         /\ fet[f].pc = "done" /\ fet[g].pc = "done"
         /\ fet[f].user = fet[g].user
         /\ fet[f].otpk # NoOtpk /\ fet[g].otpk # NoOtpk)
        => fet[f].otpk # fet[g].otpk

\* Frames of message id written to a socket of user u.
WrittenTo(u, id) ==
    \E s \in Socks : uid[s] = u /\ \E i \in 1..Len(written[s]) : written[s][i].id = id

\* C2: an encrypted_message sent while its recipient had no open session is
\* written to a socket of the recipient once the recipient's next session has
\* been established and has finished its drain.
C2_AtLeastOnceOffline ==
    \A m \in DOMAIN hist :
        (hist[m].next # NoSock /\ drained[hist[m].next]) => WrittenTo(hist[m].rcpt, m)

\* C3: on every socket, no live frame is written before a queued envelope.
C3_DrainBeforeLive ==
    \A s \in Socks : \A i, j \in 1..Len(written[s]) :
        i < j => ~(written[s][i].src = "live" /\ written[s][j].src = "queue")

\* A task whose socket connect has put into the registry.
Installed(s) == uid[s] # None /\ pc[s] # "conn_close"

\* C4: at most one installed session per user has an open socket, every
\* registry entry belongs to its user, and a session that was installed and is
\* no longer its user's entry has had its socket closed.
C4_SingleSession ==
    /\ \A u \in Users :
          Cardinality({s \in Socks : Installed(s) /\ uid[s] = u /\ sock[s] = "open"}) <= 1
    /\ \A u \in Users :
          active_connections[u] # NoSock => uid[active_connections[u]] = u
    /\ \A s \in Socks :
          (Installed(s) /\ active_connections[uid[s]] # s) => sock[s] = "closed"

\* A session is displaced: its socket was open, was closed by connect, and the
\* registry now holds its successor.
C4_Witness ==
    \E s \in Socks :
        /\ Installed(s)
        /\ active_connections[uid[s]] \notin {s, NoSock}
        /\ closeCode[s] = CLOSE_NORMAL

\* C5: the registry never holds more entries than the cap.
C5_CapacityCap ==
    Cardinality({u \in Users : active_connections[u] # NoSock}) <= MAX_CONNECTIONS

\* The registry entry of u is a socket open at both ends.
Usable(u) ==
    LET t == active_connections[u]
    IN t # NoSock /\ sock[t] = "open" /\ ~peerGone[t]

\* C6: the step that ends the handling of a signaling frame whose recipient
\* has no usable live session leaves pending_messages unchanged and leaves the
\* sender's task in its read loop.
C6_SignalingNonQueuing ==
    [][\A s \in Socks :
          (/\ pc[s] = "hm_write"
           /\ frame[s].type \in Signaling
           /\ ~Usable(frame[s].recipient_id)
           /\ pc'[s] # "hm_write")
          => (pending_messages' = pending_messages /\ pc'[s] = "read")]_vars

\* C7: the queued envelopes written to a socket carry nondecreasing timestamps.
C7_DrainOrder ==
    \A s \in Socks : \A i, j \in 1..Len(written[s]) :
        (i < j /\ written[s][i].src = "queue" /\ written[s][j].src = "queue")
        => written[s][i].timestamp <= written[s][j].timestamp

\* Two queued envelopes of different timestamps have been drained to a socket.
C7_Witness ==
    \E s \in Socks : \E i, j \in 1..Len(written[s]) :
        /\ i < j
        /\ written[s][i].src = "queue" /\ written[s][j].src = "queue"
        /\ written[s][i].timestamp < written[s][j].timestamp

\* C8: a token the server issued for a user decodes to that user when checked
\* less than 30 minutes after issuance and to None when checked after its
\* expiry, also when it was accepted before.
C8_TokenRoundTrip ==
    (verdict.fresh /\ held.key = SECRET_KEY /\ held.sub \in Users) =>
        /\ (verdict.at - held.iat < ACCESS_TOKEN_MINUTES * 60 => verdict.result = held.sub)
        /\ (verdict.at > held.iat + ACCESS_TOKEN_MINUTES * 60 => verdict.result = None)

\* A token that was accepted is rejected after its expiry.
C8_Witness ==
    /\ verdict.fresh /\ held.key = SECRET_KEY /\ held.sub \in Users
    /\ verified
    /\ verdict.result = None

\* C9: no task holds the registry lock while it is suspended in the socket
\* write of send_to_user.
C9_NoLockAcrossWrite ==
    \A s \in Socks : ~(lock = s /\ pc[s] = "hm_write")

\* C10: nothing a register_user call wrote is stored unless the call completed:
\* neither its user row nor any prekey of its batch.
C10_RegisterAtomic ==
    \A r \in Regs :
        reg[r].pc \in {"user", "prekeys", "failed"} =>
            /\ \A ph \in Phones : users[ph].identity_key # r
            /\ \A row \in one_time_prekeys : row.public_key[1] # r

\* The unused prekeys of a user.
Unused(rows, user_id) == {row \in rows : row.user_id = user_id /\ ~row.used}

\* C11: the sub-select of a fetch picks the unused prekey of the user with the
\* smallest created_at and, among those, the smallest id; the update marks that
\* row and no other and returns its key; a fetch that finds no unused row
\* answers one_time_prekey = null and changes no row.
C11_DispensingOrder ==
    [][\A f \in Fetchers :
          /\ (fet[f].pc = "select" /\ fet'[f].pc # "select") =>
                LET unused == Unused(one_time_prekeys, fet[f].user) IN
                /\ one_time_prekeys' = one_time_prekeys
                /\ IF unused = {}
                   THEN fet'[f].pc = "done" /\ fet'[f].otpk = NoOtpk
                   ELSE \E row \in unused :
                           /\ fet'[f].picked = row.id
                           /\ \A other \in unused :
                                 \/ row.created_at < other.created_at
                                 \/ row.created_at = other.created_at /\ row.id <= other.id
          /\ (fet[f].pc = "update" /\ fet'[f].pc # "update") =>
                /\ \A row \in one_time_prekeys :
                      IF row.id = fet[f].picked
                      THEN /\ [row EXCEPT !.used = TRUE] \in one_time_prekeys'
                           /\ fet'[f].otpk = [key_id |-> row.key_id,
                                              public_key |-> row.public_key]
                      ELSE row \in one_time_prekeys'
                /\ Cardinality(one_time_prekeys') <= Cardinality(one_time_prekeys)
      ]_vars

\* Message id has been written live to some socket.
WrittenLive(w, id) ==
    \E t \in Socks : \E i \in 1..Len(w[t]) : w[t][i].id = id /\ w[t][i].src = "live"

\* C12: a row enters pending_messages only in the step of a task for which
\* send_to_user returned False, it is the row of the frame that task handles,
\* and that frame was not written live; after send_to_user returned False a
\* frame with a base64 payload is queued; a frame is handed to the insert only
\* when its recipient has no usable session; and a write to the recipient's
\* socket that succeeds appends the frame to that socket, queues nothing and
\* returns the sender to its read loop.
C12_OnlineVsQueued ==
    [][\A s \in Socks :
          /\ \A row \in pending_messages' \ pending_messages :
                \E t \in Socks : /\ pc[t] = "hm_insert"
                                 /\ frame[t].id = row.id
                                 /\ pc'[t] = "read"
                                 /\ ~WrittenLive(written', row.id)
          /\ (pc[s] = "hm_insert" /\ pc'[s] # "hm_insert" /\ b64decode(frame[s].payload) # "ERR")
                => \E row \in pending_messages' \ pending_messages :
                      /\ row.id = frame[s].id
                      /\ row.recipient_id = frame[s].recipient_id
                      /\ row.sender_id = uid[s]
          /\ (pc[s] = "read" /\ pc'[s] = "hm_insert")
                => ~Usable(frame'[s].recipient_id)
          /\ (pc[s] = "hm_write" /\ frame[s].type = "encrypted_message" /\ pc'[s] = "read")
                => LET t == active_connections[frame[s].recipient_id] IN
                   /\ Len(written'[t]) = Len(written[t]) + 1
                   /\ written'[t][Len(written'[t])].id = frame[s].id
                   /\ written'[t][Len(written'[t])].sender_id = uid[s]
                   /\ written'[t][Len(written'[t])].payload = frame[s].payload
                   /\ pending_messages' = pending_messages
                   /\ \A row \in pending_messages : row.id # frame[s].id
      ]_vars

\* One message was queued while its recipient had no entry and a later one
\* was written live to the recipient's open socket.
C12_Witness ==
    \E t \in Socks : \E i \in 1..Len(written[t]) :
        /\ written[t][i].src = "live" /\ written[t][i].type = "encrypted_message"
        /\ sock[t] = "open" /\ ~peerGone[t]
        /\ \E row \in pending_messages : row.id # written[t][i].id

\* C13: the send_to_user call of a task never raises into it: whatever the
\* write to the recipient's socket does, the step that ends the call leaves the
\* calling task's socket as it was and the task in handle_message or back in
\* its read loop.
C13_SendNeverRaises ==
    [][\A s \in Socks :
          (pc[s] = "hm_write" /\ pc'[s] # "hm_write")
          => (pc'[s] \in {"read", "hm_insert"} /\ sock'[s] = sock[s])]_vars

\* A token that is missing (no JWT), invalid (not signed by the server) or
\* expired at clock reading now.
BadToken(token, now) ==
    \/ token = NoToken
    \/ token.key # SECRET_KEY
    \/ now > token.iat + ACCESS_TOKEN_MINUTES * 60

\* C14: an upgrade that presents a missing, invalid or expired token ends with
\* the task done and its socket closed with code 1008; the registry, every
\* other task and socket, the queue, the cursors and all that was written stay
\* as they were.
C14_AuthGate ==
    [][\A s \in Socks, token \in WsTokens, now \in UpgradeTimes :
          (BadToken(token, now) /\ Upgrade(s, token, now))
          => /\ pc'[s] = "done" /\ sock'[s] = "closed" /\ closeCode'[s] = CLOSE_POLICY
             /\ uid'[s] = None
             /\ active_connections' = active_connections
             /\ \A t \in Socks \ {s} :
                   pc'[t] = pc[t] /\ sock'[t] = sock[t] /\ closeCode'[t] = closeCode[t]
             /\ UNCHANGED <<pending_messages, written, cursor, lock>>
      ]_vars

\* An upgrade was rejected while another user's session was open and an
\* envelope was queued.
C14_Witness ==
    \E s \in Socks :
        /\ closeCode[s] = CLOSE_POLICY
        /\ pending_messages # {}
        /\ \E u \in Users : Usable(u)

\* C15: when the read loop of a session ends because receive_json raised (the
\* peer disconnected), the handler's exit leaves the registry without an entry
\* that maps the session's user to the session's socket.
C15_DisconnectRemovesEntry ==
    [][\A s \in Socks :
          (pc[s] = "read" /\ pc'[s] = "done") => active_connections'[uid[s]] # s]_vars

\* C16: a queued envelope is written at most once: no two writes of the drain
\* loops, to one socket or to two, carry the same row.
C16_AtMostOnce ==
    \A s, t \in Socks : \A i \in 1..Len(written[s]) : \A j \in 1..Len(written[t]) :
        (/\ written[s][i].src = "queue" /\ written[t][j].src = "queue"
         /\ written[s][i].id = written[t][j].id)
        => (s = t /\ i = j)

\* C17: the encrypted_message frames of one sender arrive on a socket in the
\* order the sender sent them (message ids grow in the order the frames were
\* read from the senders), whether they were drained from the queue or
\* written live.
C17_PerSenderOrder ==
    \A t \in Socks : \A i, j \in 1..Len(written[t]) :
        (/\ i < j
         /\ written[t][i].type = "encrypted_message"
         /\ written[t][j].type = "encrypted_message"
         /\ written[t][i].sender_id = written[t][j].sender_id)
        => written[t][i].id <= written[t][j].id

\* C18 (as stated): a prekey row goes from unused to used once: no step makes
\* a used row unused again, so no row is dispensed a second time.
C18_UsedOnce ==
    [][\A row \in one_time_prekeys : \A after \in one_time_prekeys' :
          (after.id = row.id /\ row.used) => after.used]_vars

\* C18 (amended): a used row becomes unused only in the upsert of a register
\* call that uploads its (user_id, key_id) again, which replaces its public
\* key by the new upload; and the sub-select of a fetch picks only a row that
\* is unused.
C18_UsedUntilReupload ==
    [][/\ \A row \in one_time_prekeys : \A after \in one_time_prekeys' :
             (after.id = row.id /\ row.used /\ ~after.used)
             => \E r \in Regs :
                   /\ reg[r].pc = "prekeys" /\ reg[r].i \in 1..Len(reg[r].batch)
                   /\ reg'[r].i = reg[r].i + 1
                   /\ reg[r].user_id = row.user_id
                   /\ reg[r].batch[reg[r].i].key_id = row.key_id
                   /\ after.public_key = <<r, reg[r].i>>
                   /\ after.public_key # row.public_key
       /\ \A f \in Fetchers :
             (fet[f].pc = "select" /\ fet'[f].pc = "update")
             => \E row \in one_time_prekeys : row.id = fet'[f].picked /\ ~row.used
      ]_vars

\* Two fetches were answered with the same key_id of one user, from two
\* uploads: the row was dispensed, uploaded again and dispensed again.
C18_Witness ==
    \E f, g \in Fetchers :
        /\ f # g
        /\ fet[f].pc = "done" /\ fet[g].pc = "done"
        /\ fet[f].otpk # NoOtpk /\ fet[g].otpk # NoOtpk
        /\ fet[f].user = fet[g].user
        /\ fet[f].otpk.key_id = fet[g].otpk.key_id
        /\ fet[f].otpk.public_key # fet[g].otpk.public_key

\* Row id has been written to socket s by the drain loop.
WrittenQueue(s, id) ==
    \E i \in 1..Len(written[s]) : written[s][i].id = id /\ written[s][i].src = "queue"

\* The rows of a cursor.
Rows(q) == {q[i] : i \in 1..Len(q)}

\* The rows a drain loop that failed had not yet sent are queued, or a drain
\* loop of the same user has written them.
RowsKept ==
    \A s \in Socks : (pc[s] = "done" /\ cursor[s] # <<>>) =>
        \A row \in Rows(cursor[s]) :
            \/ row \in pending_messages
            \/ \E t \in Socks : uid[t] = uid[s] /\ WrittenQueue(t, row.id)

\* What the steps of the drain loop do to pending_messages.
DeleteAfterSend ==
    [][\A s \in Socks :
          /\ \A row \in pending_messages \ pending_messages' :
                \E t \in Socks : /\ pc[t] = "drain_delete"
                                 /\ pc'[t] # "drain_delete"
                                 /\ Head(cursor[t]).id = row.id
                                 /\ WrittenQueue(t, row.id)
          /\ (pc[s] = "drain_delete" /\ pc'[s] # "drain_delete")
                => pending_messages' =
                      {r \in pending_messages : r.id # Head(cursor[s]).id}
          /\ (pc[s] = "drain_send" /\ pc'[s] = "done")
                => /\ sock'[s] = "closed"
                   /\ pending_messages' = pending_messages
                   /\ written' = written
          /\ (pc[s] = "drain_fetch" /\ pc'[s] # "drain_fetch")
                => Rows(cursor'[s]) = {r \in pending_messages : r.recipient_id = uid[s]}
      ]_vars

\* C19: a row leaves pending_messages only in the DELETE of a drain loop that
\* has written it to its socket, and that DELETE removes no other row; a send
\* of the drain loop that raises closes the session and deletes and writes
\* nothing; the row it failed on and the rows after it stay queued until a
\* session of the same user writes them; and the SELECT of a session's drain
\* reads every row queued for its user.
C19_SendThenDelete == []RowsKept /\ DeleteAfterSend

\* A send failed in the drain of one session, the row stayed queued, and a
\* later session of the same user has written it.
C19_Witness ==
    \E s, t \in Socks :
        /\ s < t /\ uid[s] = uid[t] /\ uid[s] # None
        /\ pc[s] = "done" /\ cursor[s] # <<>>
        /\ ~WrittenQueue(s, Head(cursor[s]).id)
        /\ WrittenQueue(t, Head(cursor[s]).id)

\* C20: the step that ends a write to the socket of a registry entry, failed
\* or not, inserts no row and does not lead to the INSERT; a task reaches the
\* INSERT only for a recipient that has no registry entry.
C20_NoFallback ==
    [][\A s \in Socks :
          /\ (pc[s] = "hm_write" /\ pc'[s] # "hm_write")
                => (pending_messages' = pending_messages /\ pc'[s] # "hm_insert")
          /\ (pc[s] # "hm_insert" /\ pc'[s] = "hm_insert")
                => (pc[s] = "read" /\ active_connections[frame'[s].recipient_id] = NoSock)
      ]_vars

\* An encrypted_message for a recipient with a registry entry was handled, its
\* write failed, and it is neither queued nor written to any socket.
C20_Witness ==
    \E m \in DOMAIN hist :
        /\ ~InFlight(m)
        /\ active_connections[hist[m].rcpt] # NoSock
        /\ \A row \in pending_messages : row.id # m
        /\ \A t \in Socks : \A i \in 1..Len(written[t]) : written[t][i].id # m

\* The frames the relay is to drop: no type, no recipient_id, an
\* encrypted_message without payload, or a type that is neither
\* encrypted_message nor one of the five signaling types.
Droppable(data) ==
    \/ data.type = None
    \/ data.recipient_id = None
    \/ data.type = "encrypted_message" /\ data.payload = None
    \/ data.type \notin {"encrypted_message", "call_offer", "call_answer",
                         "ice_candidate", "call_reject", "call_end"}

\* C21: the step in which a task reads a frame that is to be dropped writes
\* to no socket, leaves the registry, the lock and the queue as they were,
\* closes nothing, and leaves every task where it was: the reader stays in its
\* read loop.
C21_DroppedFrames ==
    [][\A s \in Socks, data \in InFrames :
          (Droppable(data) /\ (ReceiveDropped(s, data) \/ Receive(s, data)))
          => /\ pc[s] = "read" /\ pc' = pc
             /\ UNCHANGED <<sock, closeCode, active_connections, lock,
                            pending_messages, written, frame, cursor>>
      ]_vars

\* B's session, the first to connect, is open and in the registry, a frame
\* has been read, and nothing was written, queued or closed: every frame read
\* so far was dropped.
C21_Witness ==
    /\ nframes >= 1
    /\ uid[1] = "B" /\ active_connections["B"] = 1 /\ Usable("B")
    /\ \A t \in Socks : pc[t] \in {"idle", "read"} /\ written[t] = <<>>
    /\ \E t \in Socks : pc[t] = "read" /\ uid[t] = "A"
    /\ pending_messages = {}

\* C22: the socket of a task whose handler has ended, by whatever exit, is
\* not a registry entry, and send_to_user never has a write under way to a
\* socket the server has closed.
C22_RegistryEntriesLive ==
    /\ \A s \in Socks :
          (pc[s] = "done" /\ uid[s] # None) => active_connections[uid[s]] # s
    /\ \A s \in Socks :
          pc[s] = "hm_write" => sock[active_connections[frame[s].recipient_id]] = "open"

\* C23: a session that is installed and whose socket is open is the registry
\* entry of its user, and the step in which the handler of a displaced session
\* ends leaves the entry of its successor in place.
C23_NewestWins ==
    /\ [](\A s \in Socks :
             (Installed(s) /\ sock[s] = "open") => active_connections[uid[s]] = s)
    /\ [][\A s \in Socks :
             (/\ uid[s] # None
              /\ active_connections[uid[s]] \notin {s, NoSock}
              /\ pc[s] # "done" /\ pc'[s] = "done")
             => active_connections'[uid[s]] = active_connections[uid[s]]]_vars

\* The handler of a displaced session has ended and its successor is still
\* the entry, open and in its read loop.
C23_Witness ==
    \E s1, s2 \in Socks :
        /\ s1 # s2 /\ uid[s1] # None /\ uid[s1] = uid[s2]
        /\ closeCode[s1] = CLOSE_NORMAL /\ pc[s1] = "done"
        /\ active_connections[uid[s2]] = s2
        /\ sock[s2] = "open" /\ pc[s2] = "read"

\* C24: the frame a task's send_to_user writes to a recipient's socket, and
\* the row a task inserts into the queue, carry as sender_id the user the
\* task's token authenticated.
C24_SenderAuthentic ==
    [][\A s \in Socks :
          /\ (pc[s] = "hm_write" /\ pc'[s] # "hm_write")
             => \A t \in Socks :
                   written'[t] # written[t]
                   => written'[t][Len(written'[t])].sender_id = uid[s]
          /\ (pc[s] = "hm_insert" /\ pc'[s] # "hm_insert")
             => \A r \in pending_messages' \ pending_messages : r.sender_id = uid[s]
      ]_vars

\* A session of u that is ACTIVE: it is u's registry entry, its socket is open
\* at both ends, and its drain is over (it is in its read loop or handling a
\* frame).
Active(s) ==
    /\ uid[s] # None
    /\ active_connections[uid[s]] = s
    /\ sock[s] = "open" /\ ~peerGone[s]
    /\ pc[s] \in {"read", "hm_write", "hm_insert"}

\* C25: no envelope enters the queue for a recipient who has an ACTIVE
\* session, and no envelope for a recipient sits in the queue while that
\* recipient has an ACTIVE session.
C25_NoInsertAfterDrain ==
    /\ [](\A r \in pending_messages : \A s \in Socks :
             Active(s) => uid[s] # r.recipient_id)
    /\ [][\A r \in pending_messages' \ pending_messages : \A s \in Socks :
             Active(s) => uid[s] # r.recipient_id]_vars

====
